---- MODULE Spec2Model ----
(***************************************************************************)
(* Model of src/index.js: the Epic free-games bot.  One cycle              *)
(* (fetchEpicFreeGames) fetches the upstream catalog, filters it against    *)
(* the persisted id cache (sentGames.json), POSTs every new game to the     *)
(* Discord webhook, writes the cache back and returns the new games.  The   *)
(* cycle is started by the cron callback and by the GET /check handler;     *)
(* both run on one event loop, so a cycle is atomic between its awaits      *)
(* (axios.get, axios.post) and two cycles interleave at those awaits.       *)
(***************************************************************************)
EXTENDS Integers, Sequences, FiniteSets, TLC

\* Total number of cycles started in one behaviour.
MaxRuns == 3

\* Number of cycles started in a behaviour whose cycles are followed to their
\* end.
MaxLiveRuns == 2

\* The two callers of fetchEpicFreeGames (index.js:117-120, 128-136).
Triggers == {"cron", "check"}

\* Catalog ids (g.id) the upstream may list.
Ids == {"A1", "A2"}

----------------------------------------------------------------------------
\* Upstream payload: data.data.Catalog.searchStore.elements

\* A promotional offer: { startDate, endDate }.
Offer(s) == [startDate |-> s, endDate |-> s + 7]

\* g.promotions is null/undefined.
NoPromotions == [present |-> FALSE, promotionalOffers |-> <<>>]

\* g.promotions = { promotionalOffers: groups }, each group being
\* { promotionalOffers: [offer, ...] }.
Promotions(groups) == [present |-> TRUE, promotionalOffers |-> groups]

\* One element of the catalog.
Element(i, p) == [id |-> i, promotions |-> p]

\* An entry with one promotion group holding one offer.
Active(i) == Element(i, Promotions(<< <<Offer(1)>> >>))

\* An entry with two groups, the first holding two offers.
ActiveMany(i) == Element(i, Promotions(<< <<Offer(2), Offer(1)>>, <<Offer(3)>> >>))

\* An entry whose promotions exist but list no promotional offers.
Upcoming(i) == Element(i, Promotions(<< >>))

\* An entry without promotions.
Plain(i) == Element(i, NoPromotions)

\* An entry whose first promotion group lists no offer.
EmptyGroup(i) == Element(i, Promotions(<< << >> >>))

\* A response body with the expected nesting.
Body(elems) == [shape |-> "catalog", elements |-> elems]

\* A response body lacking data.Catalog.searchStore.elements.
BadBody == [shape |-> "other", elements |-> << >>]

\* No response body (the request has not resolved, or it was rejected).
NoBody == [shape |-> "none", elements |-> << >>]

\* The bodies axios.get may resolve with.
Payloads ==
    { BadBody,
      Body(<< Plain("A2"), Upcoming("A2"), Active("A1") >>),
      Body(<< Active("A1"), ActiveMany("A2") >>),
      Body(<< ActiveMany("A2"), Plain("A1"), Active("A2") >>),
      Body(<< Active("A2"), EmptyGroup("A1") >>) }

----------------------------------------------------------------------------
\* The persisted cache file sentGames.json

Missing == [state |-> "missing", ids |-> {}]
Corrupt == [state |-> "corrupt", ids |-> {}]
Stored(s) == [state |-> "ok", ids |-> s]

CacheFiles == {Missing, Corrupt} \cup {Stored(s) : s \in SUBSET Ids}

loadCacheForgetful(f) == [threw |-> f.state = "corrupt", set |-> {}]

loadCacheLenient(f) == [threw |-> FALSE, set |-> f.ids]

\* loadCache(): an empty Set when the file does not exist, the parsed array
\* as a Set otherwise; JSON.parse throws on a file that is not JSON.
loadCache(f) ==
    CASE f.state = "missing" -> [threw |-> FALSE, set |-> {}]
      [] f.state = "corrupt" -> [threw |-> TRUE, set |-> {}]
      [] OTHER -> [threw |-> FALSE, set |-> f.ids]

\* How fs.writeFileSync may end: the array is written; it throws before the
\* file is opened (the file is untouched); it throws after the file was
\* truncated (the file is left without valid JSON).
WriteOutcomes == {"written", "refused", "truncated"}

saveCacheMerging(f, cacheSet, w) ==
    CASE w = "written" -> Stored(f.ids \cup cacheSet)
      [] w = "refused" -> f
      [] OTHER -> Corrupt

\* saveCache(cache): the file after writeFileSync ended with outcome w.
saveCache(f, cacheSet, w) ==
    CASE w = "written" -> Stored(cacheSet)
      [] w = "refused" -> f
      [] OTHER -> Corrupt

----------------------------------------------------------------------------
\* The pure part of fetchEpicFreeGames

\* .filter((g) => g.promotions && g.promotions.promotionalOffers.length > 0)
Qualifies(g) == g.promotions.present /\ Len(g.promotions.promotionalOffers) > 0

\* The map callback throws a TypeError: promotions is null, or there is no
\* first group, or promotionalOffers[0].promotionalOffers[0] is undefined and
\* offer.startDate is read from it.
MapThrows(g) ==
    \/ ~g.promotions.present
    \/ Len(g.promotions.promotionalOffers) = 0
    \/ Len(g.promotions.promotionalOffers[1]) = 0

MapGameLastOffer(g) ==
    LET groups == g.promotions.promotionalOffers
        group == groups[Len(groups)]
        offer == group[Len(group)]
    IN  [id |-> g.id, startDate |-> offer.startDate, endDate |-> offer.endDate]

\* .map((g) => { offer = g.promotions.promotionalOffers[0].promotionalOffers[0]; ... })
MapGame(g) ==
    LET offer == g.promotions.promotionalOffers[1][1]
    IN  [id |-> g.id, startDate |-> offer.startDate, endDate |-> offer.endDate]

\* games = elements.filter(...).map(...)
Games(elems) ==
    LET q == SelectSeq(elems, Qualifies)
    IN  [j \in 1..Len(q) |-> MapGame(q[j])]

\* Whether building games throws.
GamesThrows(elems) ==
    LET q == SelectSeq(elems, Qualifies)
    IN  \E j \in 1..Len(q) : MapThrows(q[j])

NextNewUnchecked(gs, cacheSet, from) == IF from <= Len(gs) THEN from ELSE 0

\* The for loop from position `from`: the index of the first game whose id
\* is not in the cache (the next one passed to sendToDiscord), 0 if none.
NextNew(gs, cacheSet, from) ==
    LET cand == {j \in from..Len(gs) : gs[j].id \notin cacheSet}
    IN  IF cand = {} THEN 0 ELSE CHOOSE j \in cand : \A k \in cand : j <= k

RecordEverything(cacheSet, g) == cacheSet \cup Ids

RecordNothing(cacheSet, g) == cacheSet

\* cache.add(game.id)
Record(cacheSet, g) == cacheSet \cup {g.id}

PushIfDelivered(newGames, g, delivered) ==
    IF delivered THEN Append(newGames, g) ELSE newGames

\* newGames.push(game), whether the POST was delivered or not.
Push(newGames, g, delivered) == Append(newGames, g)

sendToDiscordRethrows(delivered) == [threw |-> ~delivered]

\* sendToDiscord(game): axios.post inside try/catch.  The catch logs the
\* error and returns, so the call never throws, delivered or not.
sendToDiscord(delivered) == [threw |-> FALSE]

----------------------------------------------------------------------------
\* State

VARIABLES
    file,      \* content of sentGames.json
    run,       \* per caller: the locals of its current fetchEpicFreeGames call
    obs,       \* per caller: what the current call has done so far (history)
    posted,    \* per id: number of axios.post calls issued for it (history)
    lastDone,  \* the call that returned last (history)
    runs,      \* number of calls started
    response,  \* what res.json sent for the current GET /check request
    initial    \* the ids sentGames.json held at process start (history)

vars == <<file, run, obs, posted, lastDone, runs, response, initial>>

\* The /check handler has not called res.json for the current request.
NoResponse ==
    [sent |-> FALSE, success |-> FALSE, message |-> "", hasGames |-> FALSE,
     games |-> << >>]

checkResponseAlwaysGames(newGames) ==
    [sent |-> TRUE, success |-> TRUE, message |-> "New games found!",
     hasGames |-> TRUE, games |-> newGames]

\* The body the /check handler passes to res.json once the awaited
\* fetchEpicFreeGames() has returned newGames.
checkResponse(newGames) ==
    IF Len(newGames) > 0
    THEN [sent |-> TRUE, success |-> TRUE, message |-> "New games found!",
          hasGames |-> TRUE, games |-> newGames]
    ELSE [sent |-> TRUE, success |-> TRUE, message |-> "No new games right now.",
          hasGames |-> FALSE, games |-> << >>]

\* The caller's continuation once fetchEpicFreeGames() returned value: the
\* cron callback drops it, the /check handler answers the request.
Respond(c, value) == IF c = "check" THEN checkResponse(value) ELSE response

\* Locals of a call that has not started.
IdleRun ==
    [pc |-> "idle", data |-> NoBody, cache |-> {}, games |-> << >>,
     idx |-> 0, newGames |-> << >>, ret |-> << >>]

\* "No call has returned yet."
NoCall == [known |-> FALSE, who |-> "cron", data |-> NoBody, saved |-> FALSE]

\* History of a call that has not started.
IdleObs ==
    [outcome |-> "none", sent |-> << >>, failed |-> {}, atLoad |-> "none",
     loaded |-> {}, wrote |-> Missing, atStart |-> Missing, pred |-> NoCall,
     overl |-> FALSE]

\* A call is in flight: it awaits axios.get or axios.post.
InFlight(c) == run[c].pc \in {"fetching", "posting"}

Init ==
    /\ file \in CacheFiles
    /\ run = [c \in Triggers |-> IdleRun]
    /\ obs = [c \in Triggers |-> IdleObs]
    /\ posted = [i \in Ids |-> 0]
    /\ lastDone = NoCall
    /\ runs = 0
    /\ response = NoResponse
    /\ initial = file.ids

----------------------------------------------------------------------------
\* Actions

\* The cron callback or the /check handler calls fetchEpicFreeGames(), which
\* issues axios.get and awaits it.
Start(c) ==
    /\ ~InFlight(c)
    /\ runs < MaxRuns
    /\ runs' = runs + 1
    /\ run' = [run EXCEPT ![c] = [IdleRun EXCEPT !.pc = "fetching"]]
    /\ obs' = [d \in Triggers |->
                IF d = c
                THEN [IdleObs EXCEPT !.outcome = "running", !.atStart = file,
                                     !.pred = lastDone,
                                     !.overl = \E e \in Triggers \ {c} : InFlight(e)]
                ELSE IF InFlight(d) THEN [obs[d] EXCEPT !.overl = TRUE]
                ELSE obs[d]]
    /\ response' = IF c = "check" THEN NoResponse ELSE response
    /\ UNCHANGED <<file, posted, lastDone, initial>>

CatchAndSave(c, r, o, why, f) ==
    /\ run' = [run EXCEPT ![c] = [r EXCEPT !.pc = "returned", !.ret = << >>]]
    /\ obs' = [obs EXCEPT ![c] = [o EXCEPT !.outcome = why]]
    /\ lastDone' = [known |-> TRUE, who |-> c, data |-> r.data, saved |-> FALSE]
    /\ file' = Stored(r.cache)
    /\ response' = Respond(c, << >>)
    /\ UNCHANGED posted

CatchRethrows(c, r, o, why, f) ==
    /\ run' = [run EXCEPT ![c] = [r EXCEPT !.pc = "rejected", !.ret = << >>]]
    /\ obs' = [obs EXCEPT ![c] = [o EXCEPT !.outcome = why]]
    /\ lastDone' = [known |-> TRUE, who |-> c, data |-> r.data, saved |-> FALSE]
    /\ file' = f
    /\ UNCHANGED <<posted, response>>

\* catch (err) { console.error(...); return []; } reached from the call of
\* c whose locals are r, the cache file being f by then: the call returns []
\* and the block itself touches neither the file nor the webhook.
Catch(c, r, o, why, f) ==
    /\ run' = [run EXCEPT ![c] = [r EXCEPT !.pc = "returned", !.ret = << >>]]
    /\ obs' = [obs EXCEPT ![c] = [o EXCEPT !.outcome = why]]
    /\ lastDone' = [known |-> TRUE, who |-> c, data |-> r.data, saved |-> FALSE]
    /\ file' = f
    /\ response' = Respond(c, << >>)
    /\ UNCHANGED posted

\* An exception that leaves fetchEpicFreeGames: the promise it returned is
\* rejected, and the awaiting /check handler throws before res.json.
Escape(c, r, o, why, f) ==
    /\ run' = [run EXCEPT ![c] = [r EXCEPT !.pc = "rejected", !.ret = << >>]]
    /\ obs' = [obs EXCEPT ![c] = [o EXCEPT !.outcome = why]]
    /\ lastDone' = [known |-> TRUE, who |-> c, data |-> r.data, saved |-> FALSE]
    /\ file' = f
    /\ UNCHANGED <<posted, response>>

SaveThrewUncaught(c, r, o, f) == Escape(c, r, o, "writeError", f)

\* saveCache(cache) at line 107 throws, leaving the file as f: the call sits
\* inside the try block of lines 72-109, so the catch block handles it.
SaveThrew(c, r, o, f) == Catch(c, r, o, "writeError", f)

NotifyEagerAdd(c, r, o, n) ==
    /\ run' = [run EXCEPT ![c] =
                 [r EXCEPT !.pc = "posting", !.idx = n,
                           !.cache = @ \cup {r.games[n].id}]]
    /\ obs' = [obs EXCEPT ![c] = [o EXCEPT !.sent = Append(@, r.games[n].id)]]
    /\ posted' = [posted EXCEPT ![r.games[n].id] = @ + 1]
    /\ UNCHANGED <<file, lastDone, response>>

\* await sendToDiscord(game) for game n of the list: axios.post is issued
\* and the call yields until it settles.
Notify(c, r, o, n) ==
    /\ run' = [run EXCEPT ![c] = [r EXCEPT !.pc = "posting", !.idx = n]]
    /\ obs' = [obs EXCEPT ![c] = [o EXCEPT !.sent = Append(@, r.games[n].id)]]
    /\ posted' = [posted EXCEPT ![r.games[n].id] = @ + 1]
    /\ UNCHANGED <<file, lastDone, response>>

PersistIfNew(c, r, o, w) ==
    IF w = "written" \/ r.newGames = << >>
    THEN /\ file' = IF r.newGames = << >> THEN file ELSE saveCache(file, r.cache, w)
         /\ run' = [run EXCEPT ![c] =
                      [r EXCEPT !.pc = "returned", !.ret = r.newGames]]
         /\ obs' = [obs EXCEPT ![c] =
                      [o EXCEPT !.outcome = "saved",
                                !.wrote = IF r.newGames = << >> THEN @ ELSE file']]
         /\ lastDone' = [known |-> TRUE, who |-> c, data |-> r.data, saved |-> TRUE]
         /\ response' = Respond(c, r.newGames)
         /\ UNCHANGED posted
    ELSE SaveThrew(c, r, o, saveCache(file, r.cache, w))

\* saveCache(cache); return newGames; after the loop: the write ends with
\* outcome w, and either newGames is returned or the write throws into the
\* catch block.
Persist(c, r, o, w) ==
    IF w = "written"
    THEN /\ file' = saveCache(file, r.cache, w)
         /\ run' = [run EXCEPT ![c] =
                      [r EXCEPT !.pc = "returned", !.ret = r.newGames]]
         /\ obs' = [obs EXCEPT ![c] =
                      [o EXCEPT !.outcome = "saved", !.wrote = file']]
         /\ lastDone' = [known |-> TRUE, who |-> c, data |-> r.data, saved |-> TRUE]
         /\ response' = Respond(c, r.newGames)
         /\ UNCHANGED posted
    ELSE SaveThrew(c, r, o, saveCache(file, r.cache, w))

\* The for loop resumed at position `from`, up to its next await or to the
\* return: known games are skipped, the next new game is handed to
\* sendToDiscord (axios.post is issued and awaited); when no game is left,
\* saveCache(cache) runs with write outcome w and newGames is returned, or
\* the write throws into the catch block.
Loop(c, r, o, from, w) ==
    LET n == NextNew(r.games, r.cache, from)
    IN  IF n # 0 THEN Notify(c, r, o, n) ELSE Persist(c, r, o, w)

\* axios.get rejects (network failure, non-2xx status): the catch block.
FetchReject(c) ==
    /\ run[c].pc = "fetching"
    /\ Catch(c, run[c], obs[c], "fetchError", file)
    /\ UNCHANGED <<runs, initial>>

\* axios.get resolves with body d.  The call then runs, without yielding,
\* loadCache(), the filter/map that builds games, and the for loop up to its
\* first axios.post or, when nothing is new, up to saveCache and the return.
FetchResolve(c, d, w) ==
    /\ run[c].pc = "fetching"
    /\ LET lc == loadCache(file)
           r0 == [run[c] EXCEPT !.data = d, !.cache = lc.set]
           o0 == [obs[c] EXCEPT !.atLoad = file.state, !.loaded = lc.set]
       IN  IF lc.threw
           THEN Catch(c, r0, o0, "loadError", file)
           ELSE IF d.shape # "catalog" \/ GamesThrows(d.elements)
           THEN Catch(c, r0, o0, "payloadError", file)
           ELSE Loop(c, [r0 EXCEPT !.games = Games(d.elements)], o0, 1, w)
    /\ UNCHANGED <<runs, initial>>

\* The awaited sendToDiscord(game) settles (the POST was delivered or not):
\* cache.add(game.id); newGames.push(game); then the loop goes on.
PostSettle(c, delivered, w) ==
    /\ run[c].pc = "posting"
    /\ LET r == run[c]
           g == r.games[r.idx]
           o == [obs[c] EXCEPT !.failed = IF delivered THEN @ ELSE @ \cup {g.id}]
       IN  IF sendToDiscord(delivered).threw
           THEN Catch(c, r, o, "notifyError", file)
           ELSE Loop(c, [r EXCEPT !.cache = Record(@, g),
                                  !.newGames = Push(@, g, delivered)],
                     o, r.idx + 1, w)
    /\ UNCHANGED <<runs, initial>>

Next ==
    \E c \in Triggers :
        \/ Start(c)
        \/ FetchReject(c)
        \/ \E d \in Payloads, w \in WriteOutcomes : FetchResolve(c, d, w)
        \/ \E delivered \in BOOLEAN, w \in WriteOutcomes : PostSettle(c, delivered, w)

Spec == Init /\ [][Next]_vars

\* The awaited HTTP call of c settles: axios.get resolves or rejects, or the
\* axios.post inside sendToDiscord resolves or fails.
Settle(c) ==
    \/ FetchReject(c)
    \/ \E d \in Payloads, w \in WriteOutcomes : FetchResolve(c, d, w)
    \/ \E delivered \in BOOLEAN, w \in WriteOutcomes : PostSettle(c, delivered, w)

\* A caller starts a cycle, within the number of cycles followed to their
\* end.
LiveStart(c) == runs < MaxLiveRuns /\ Start(c)

LiveNext == \E c \in Triggers : LiveStart(c) \/ Settle(c)

\* The program under the assumption that every outbound HTTP call eventually
\* resolves or fails.
FairSpec == Init /\ [][LiveNext]_vars /\ \A c \in Triggers : WF_vars(Settle(c))

----------------------------------------------------------------------------
\* Vocabulary of the properties

\* The call of c has returned a value.
Returned(c) == run[c].pc = "returned"

\* The ids of a list of games, as a list and as a set.
IdSeq(gs) == [j \in 1..Len(gs) |-> gs[j].id]
IdsOf(gs) == {gs[j].id : j \in 1..Len(gs)}
Range(q) == {q[j] : j \in 1..Len(q)}

\* An entry that lists at least one promotion group.
HasOffers(g) == g.promotions.present /\ g.promotions.promotionalOffers # << >>

\* The ids, in catalog order, of the entries with a promotion group whose id
\* is not in `known`.
RECURSIVE NewIds(_, _)
NewIds(elems, known) ==
    IF elems = << >> THEN << >>
    ELSE IF HasOffers(Head(elems)) /\ Head(elems).id \notin known
         THEN << Head(elems).id >> \o NewIds(Tail(elems), known)
         ELSE NewIds(Tail(elems), known)

\* As NewIds, keeping only the first entry of each id.
RECURSIVE FirstNewIds(_, _)
FirstNewIds(elems, known) ==
    IF elems = << >> THEN << >>
    ELSE IF HasOffers(Head(elems)) /\ Head(elems).id \notin known
         THEN << Head(elems).id >>
                  \o FirstNewIds(Tail(elems), known \cup {Head(elems).id})
         ELSE FirstNewIds(Tail(elems), known)

\* The call of c is the second of two calls run in succession against the
\* same catalog: it started after the previous call had returned, no other
\* call was in flight while it ran, and both fetches resolved with the same
\* catalog.
SecondOfTwo(c) ==
    /\ Returned(c)
    /\ obs[c].pred.known
    /\ ~obs[c].overl
    /\ run[c].data.shape = "catalog"
    /\ obs[c].pred.data = run[c].data

----------------------------------------------------------------------------
----------------------------------------------------------------------------
\* C2 (as stated): over any sequence or interleaving of cycles started by
\* cron and by /check, no offer id is POSTed to the webhook more than once.
C2_AtMostOncePerId == \A i \in Ids : posted[i] <= 1

----------------------------------------------------------------------------
\* C3 (as stated): every write of the cache file by saveCache produces a
\* superset of the ids the file held before; an id once persisted is never
\* removed.
C3_StoreMonotonic ==
    [][(file.state = "ok" /\ file'.state = "ok") => file.ids \subseteq file'.ids]_vars

----------------------------------------------------------------------------
\* C4 (as stated): an offer whose id is in the persisted store before a cycle
\* begins is neither POSTed by that cycle nor part of the delta it returns.
C4_KnownAtStartNotInDelta ==
    \A c \in Triggers :
        \A i \in obs[c].atStart.ids :
            i \notin Range(obs[c].sent) /\ i \notin IdsOf(run[c].ret)

----------------------------------------------------------------------------
\* The fetch of the call of c failed: axios.get was rejected, or it resolved
\* with a body lacking the expected structure.
FetchFailed(c) ==
    \/ obs[c].outcome = "fetchError"
    \/ /\ run[c].pc = "returned"
       /\ \/ run[c].data.shape = "other"
          \/ \E j \in 1..Len(run[c].data.elements) :
                /\ HasOffers(run[c].data.elements[j])
                /\ run[c].data.elements[j].promotions.promotionalOffers[1] = << >>

\* C5: when the upstream catalog request fails (network failure, non-success
\* response, or a payload lacking the expected structure), the step in which
\* the cycle ends writes nothing to the cache file and issues no POST, the
\* cycle has issued no POST before it, and it returns an empty delta.
C5_FetchFailureTouchesNothing ==
    [][\A c \in Triggers :
          (run[c].pc = "fetching" /\ FetchFailed(c)')
              => /\ file' = file
                 /\ posted' = posted
                 /\ obs'[c].sent = << >>
                 /\ run'[c].ret = << >>
                 /\ run'[c].newGames = << >>]_vars

\* One call ended on a rejected request and the other on a malformed body,
\* with ids stored in the cache file.
C5_Witness ==
    /\ obs["cron"].outcome = "fetchError"
    /\ obs["check"].outcome = "payloadError"
    /\ FetchFailed("cron") /\ FetchFailed("check")
    /\ file.state = "ok" /\ file.ids # {}

----------------------------------------------------------------------------
\* C6 (as stated): a webhook delivery failure is non-fatal: the failing offer
\* still appears in the returned delta, its id is in the set that is
\* persisted, and every remaining new offer of the list is still notified.
C6_NotifyFailureNonFatal ==
    \A c \in Triggers :
        (Returned(c) /\ obs[c].failed # {})
            => /\ obs[c].failed \subseteq IdsOf(run[c].ret)
               /\ obs[c].wrote.state = "ok"
               /\ obs[c].failed \subseteq obs[c].wrote.ids
               /\ IdsOf(run[c].games) \subseteq obs[c].loaded \cup Range(obs[c].sent)

\* C6 (amended): a webhook delivery failure is non-fatal: the failing offer
\* is still pushed to newGames, its id is still added to the set handed to
\* saveCache, and every remaining new offer of the list is still notified;
\* when the final write succeeds, the offer is in the returned delta and its
\* id in the written file (when the write throws, the cycle returns []).
C6_NotifyFailureNonFatalUpToSave ==
    \A c \in Triggers :
        (Returned(c) /\ obs[c].failed # {})
            => /\ obs[c].outcome \in {"saved", "writeError"}
               /\ obs[c].failed \subseteq IdsOf(run[c].newGames)
               /\ obs[c].failed \subseteq run[c].cache
               /\ IdsOf(run[c].games) \subseteq obs[c].loaded \cup Range(obs[c].sent)
               /\ obs[c].outcome = "saved"
                    => /\ obs[c].failed \subseteq IdsOf(run[c].ret)
                       /\ obs[c].wrote.state = "ok"
                       /\ obs[c].failed \subseteq obs[c].wrote.ids

\* A cycle returned both offers after the POST of the first one failed and
\* the POST of the second one was delivered.
C6_Witness ==
    \E c \in Triggers :
        /\ Returned(c) /\ obs[c].outcome = "saved"
        /\ obs[c].failed = {"A1"}
        /\ obs[c].sent = << "A1", "A2" >>
        /\ IdSeq(run[c].ret) = << "A1", "A2" >>
        /\ obs[c].wrote.ids = Ids

----------------------------------------------------------------------------
\* C7 (as stated): for every cycle whose fetch succeeds, the returned delta
\* is exactly the sequence, in catalog order, of the fetched entries with a
\* non-empty promotional-offers list whose id was absent from the loaded
\* store (so entries without promotions are never notified, returned or
\* stored), and the store after the cycle is the loaded store plus the ids
\* of the delta.
C7_DeltaIsNewQualifying ==
    \A c \in Triggers :
        (Returned(c) /\ run[c].data.shape # "none")
            => /\ IdSeq(run[c].ret) = NewIds(run[c].data.elements, obs[c].loaded)
               /\ obs[c].sent = IdSeq(run[c].ret)
               /\ obs[c].wrote = Stored(obs[c].loaded \cup IdsOf(run[c].ret))

\* The ids of the fetched entries of c that list a promotion group.
OfferIds(c) ==
    {run[c].data.elements[j].id :
        j \in {k \in 1..Len(run[c].data.elements) : HasOffers(run[c].data.elements[k])}}

\* C7 (amended): for every cycle that reaches the end of its try block
\* (the fetch resolved with a well-formed catalog, loadCache did not throw
\* and the final write succeeded), the returned delta is exactly the
\* sequence, in catalog order, of the first entry of each id among the
\* fetched entries with a non-empty promotional-offers list whose id was
\* absent from the loaded store; these and no others were notified, and the
\* set the cycle wrote is the loaded store plus the ids of the delta.  In
\* every cycle, entries with no promotions or an empty promotional-offers
\* list are never notified, never returned and never added to the set.
C7_DeltaIsFirstNewQualifying ==
    \A c \in Triggers :
        /\ Range(obs[c].sent) \cup IdsOf(run[c].ret) \cup (run[c].cache \ obs[c].loaded)
              \subseteq OfferIds(c)
        /\ (Returned(c) /\ obs[c].outcome = "saved")
            => /\ IdSeq(run[c].ret) = FirstNewIds(run[c].data.elements, obs[c].loaded)
               /\ obs[c].sent = IdSeq(run[c].ret)
               /\ obs[c].wrote = Stored(obs[c].loaded \cup IdsOf(run[c].ret))

\* The scenario of the specification: entries without promotions or with an
\* empty promotional-offers list and one active offer A1, the store being
\* empty: delta [A1], one POST, store {A1}.
C7_Witness ==
    \E c \in Triggers :
        /\ Returned(c) /\ obs[c].outcome = "saved"
        /\ run[c].data = Body(<< Plain("A2"), Upcoming("A2"), Active("A1") >>)
        /\ obs[c].loaded = {}
        /\ IdSeq(run[c].ret) = << "A1" >>
        /\ obs[c].sent = << "A1" >>
        /\ file = Stored({"A1"})

----------------------------------------------------------------------------
\* C8: each cycle loads the store on its own and its saveCache overwrites the
\* file with the cycle's own in-memory set (the snapshot it loaded plus the
\* ids it added itself), whatever the file holds by then; so when two
\* overlapping cycles have both saved, the file is the set written by the
\* one that saved last, and ids written only by the other are gone.
C8_LastSaveWins ==
    /\ [][\A c \in Triggers :
            (InFlight(c) /\ obs'[c].outcome = "saved")
                => /\ file' = Stored(obs'[c].loaded \cup IdsOf(run'[c].newGames))
                   /\ obs'[c].wrote = file']_vars
    /\ []((\A c \in Triggers : Returned(c) /\ obs[c].outcome = "saved")
            => file = obs[lastDone.who].wrote)

\* Two overlapping cycles have both saved, and an id that one of them
\* notified and wrote is missing from the file the other wrote last.
C8_Witness ==
    \E c, d \in Triggers :
        /\ c # d /\ lastDone.who = c
        /\ Returned(c) /\ obs[c].outcome = "saved" /\ obs[c].overl
        /\ Returned(d) /\ obs[d].outcome = "saved" /\ obs[d].overl
        /\ runs = 2
        /\ file = obs[c].wrote
        /\ \E i \in IdsOf(run[d].ret) : i \in obs[d].wrote.ids /\ i \notin file.ids

----------------------------------------------------------------------------
\* C9 (as stated): a failure while writing the persisted store at the end of
\* a cycle propagates out of fetchEpicFreeGames as a rejection instead of
\* becoming a normal return value.
C9_WriteFailureRejects ==
    \A c \in Triggers : obs[c].outcome = "writeError" => run[c].pc = "rejected"

\* C9 (amended): a failure while writing the persisted store at the end of a
\* cycle is caught by the catch block of fetchEpicFreeGames: the call
\* returns the empty list as a normal value, whatever it had notified.
C9_WriteFailureReturnsEmpty ==
    \A c \in Triggers :
        obs[c].outcome = "writeError" => Returned(c) /\ run[c].ret = << >>

\* A cycle notified two offers and then failed to write the store.
C9_Witness ==
    \E c \in Triggers :
        /\ obs[c].outcome = "writeError"
        /\ obs[c].sent = << "A1", "A2" >>
        /\ Len(run[c].newGames) = 2
        /\ file # Stored(run[c].cache)

----------------------------------------------------------------------------
\* The fetch of the call of c resolved with a catalog from which games can be
\* built.
GoodCatalog(c) == run[c].data.shape = "catalog" /\ ~FetchFailed(c)

\* C10 (as stated): when the persisted state file is missing or is present
\* but corrupt, the cycle proceeds as if the store were empty: every fetched
\* qualifying offer is treated as new, notified and returned in the delta.
C10_LoadFailsSoft ==
    \A c \in Triggers :
        (Returned(c) /\ GoodCatalog(c) /\ obs[c].atLoad \in {"missing", "corrupt"})
            => /\ obs[c].sent = FirstNewIds(run[c].data.elements, {})
               /\ IdSeq(run[c].ret) = obs[c].sent

\* C10 (amended): when the persisted state file is missing, the cycle
\* proceeds as if the store were empty: every fetched qualifying offer is
\* treated as new and notified (once per id), and returned in the delta when
\* the final write succeeds.  When the file is present but corrupt,
\* JSON.parse throws into the catch block: the cycle notifies nothing,
\* writes nothing and returns an empty delta.
C10_MissingIsEmptyCorruptAborts ==
    \A c \in Triggers :
        /\ (Returned(c) /\ GoodCatalog(c) /\ obs[c].atLoad = "missing")
            => /\ obs[c].loaded = {}
               /\ obs[c].sent = FirstNewIds(run[c].data.elements, {})
               /\ IdSeq(run[c].newGames) = obs[c].sent
               /\ obs[c].outcome = "saved" => IdSeq(run[c].ret) = obs[c].sent
        /\ obs[c].atLoad = "corrupt"
            => /\ Returned(c) /\ obs[c].outcome = "loadError"
               /\ obs[c].sent = << >>
               /\ run[c].ret = << >>
               /\ obs[c].wrote = Missing

\* One cycle found no file and notified both offers; the other found a
\* corrupt file while the catalog listed offers.
C10_Witness ==
    \E c, d \in Triggers :
        /\ c # d
        /\ Returned(c) /\ obs[c].atLoad = "missing"
        /\ obs[c].sent = << "A1", "A2" >>
        /\ Returned(d) /\ obs[d].atLoad = "corrupt"
        /\ GoodCatalog(d) /\ OfferIds(d) # {}

----------------------------------------------------------------------------
\* The call of c got past the filter/map: games was built.
GamesBuilt(c) ==
    run[c].pc = "posting" \/ obs[c].outcome \in {"saved", "writeError"}

\* The list q has no element twice.
Distinct(q) == \A j, k \in 1..Len(q) : q[j] = q[k] => j = k

----------------------------------------------------------------------------
\* C11: a GET /check request is answered only once the cycle it started has
\* finished (after its save or its abort), and it is answered then; the body
\* always carries success: true, and carries games exactly when the delta the
\* cycle returned is non-empty, games being that delta.
C11_CheckAnswersAfterCycle ==
    /\ response.sent <=> Returned("check")
    /\ response.sent
        => /\ obs["check"].outcome \in
                {"saved", "writeError", "fetchError", "loadError", "payloadError"}
           /\ response.success
           /\ response.hasGames <=> run["check"].ret # << >>
           /\ response.games = run["check"].ret

\* /check answered with two games, and the file holds their ids.
C11_Witness ==
    /\ response.sent /\ response.hasGames
    /\ IdSeq(response.games) = << "A1", "A2" >>
    /\ obs["check"].outcome = "saved"
    /\ response.message = "New games found!"

----------------------------------------------------------------------------
\* C12: within one cycle the new offers are processed one at a time in list
\* order: a POST is issued only when every earlier POST of the cycle has
\* settled, and an id enters the in-memory set only after its own POST has
\* settled and before the next offer is examined.
C12_OneOfferAtATime ==
    \A c \in Triggers :
        /\ run[c].pc = "posting"
            => /\ obs[c].sent
                    = Append(IdSeq(run[c].newGames), run[c].games[run[c].idx].id)
               /\ run[c].games[run[c].idx].id \notin run[c].cache
               /\ \A j \in 1..(run[c].idx - 1) : run[c].games[j].id \in run[c].cache
        /\ run[c].pc # "posting" => obs[c].sent = IdSeq(run[c].newGames)
        /\ GamesBuilt(c) => run[c].cache = obs[c].loaded \cup IdsOf(run[c].newGames)

\* The second POST of a cycle is pending after the first one failed.
C12_Witness ==
    \E c \in Triggers :
        /\ run[c].pc = "posting"
        /\ Len(run[c].newGames) = 1
        /\ obs[c].sent = << "A1", "A2" >>
        /\ obs[c].failed = {"A1"}
        /\ run[c].cache = {"A1"}

----------------------------------------------------------------------------
\* C13 (as stated): in every cycle that returns, the sequence of offers
\* POSTed during the cycle equals the delta it returns.
C13_PostsEqualDelta ==
    \A c \in Triggers : Returned(c) => obs[c].sent = IdSeq(run[c].ret)

\* C13 (amended): in every cycle that returns, the sequence of offers POSTed
\* during the cycle equals newGames, one POST per offer and in the same
\* order; it equals the returned delta unless the final write threw, in
\* which case the cycle returns [] after having POSTed them.
C13_PostsEqualDeltaUnlessWriteFails ==
    \A c \in Triggers :
        Returned(c)
            => /\ obs[c].sent = IdSeq(run[c].newGames)
               /\ Distinct(obs[c].sent)
               /\ obs[c].outcome # "writeError" => obs[c].sent = IdSeq(run[c].ret)
               /\ obs[c].outcome = "writeError" => run[c].ret = << >>

\* A cycle returned the two offers it POSTed, the second POST having failed.
C13_Witness ==
    \E c \in Triggers :
        /\ Returned(c) /\ obs[c].outcome = "saved"
        /\ obs[c].failed = {"A2"}
        /\ obs[c].sent = << "A1", "A2" >>
        /\ IdSeq(run[c].ret) = obs[c].sent

----------------------------------------------------------------------------
\* C14: a cycle loads the store once and writes it at most once: the file
\* changes only in the step in which a cycle ends, after every POST of that
\* cycle has settled; the write happens even when the delta is empty; a
\* cycle that aborts on a fetch failure writes nothing.
C14_OneWriteAtCycleEnd ==
    [][/\ file' # file
            => \E c \in Triggers :
                  /\ InFlight(c) /\ run'[c].pc = "returned"
                  /\ obs'[c].outcome \in {"saved", "writeError"}
                  /\ obs'[c].sent = IdSeq(run'[c].newGames)
       /\ \A c \in Triggers :
            /\ (InFlight(c) /\ obs'[c].outcome = "saved")
                => /\ file' = Stored(run'[c].cache)
                   /\ obs'[c].wrote = file'
            /\ (InFlight(c) /\ obs'[c].outcome \in {"fetchError", "payloadError"})
                => file' = file /\ obs'[c].wrote = Missing
            /\ (run[c].pc = "posting" /\ InFlight(c)')
                => /\ obs'[c].atLoad = obs[c].atLoad
                   /\ obs'[c].loaded = obs[c].loaded
                   /\ obs'[c].wrote = Missing]_vars

\* One cycle wrote the store although its delta was empty, while the other
\* has notified an offer whose id is not in the file yet.
C14_Witness ==
    \E c, d \in Triggers :
        /\ c # d
        /\ obs[c].outcome = "saved" /\ run[c].ret = << >> /\ obs[c].wrote.state = "ok"
        /\ run[d].pc = "posting" /\ run[d].newGames # << >>
        /\ run[d].newGames[1].id \notin file.ids

----------------------------------------------------------------------------
\* C15: the offer record of every qualifying catalog entry carries the
\* entry's id and the startDate and endDate of the first promotional offer
\* of the entry's first promotion group, whatever else the entry lists.
C15_FirstOfferOfFirstGroup ==
    \A c \in Triggers :
        GamesBuilt(c)
            => LET q == SelectSeq(run[c].data.elements, HasOffers)
               IN  /\ Len(run[c].games) = Len(q)
                   /\ \A j \in 1..Len(q) :
                        LET first == q[j].promotions.promotionalOffers[1][1]
                        IN  /\ run[c].games[j].id = q[j].id
                            /\ run[c].games[j].startDate = first.startDate
                            /\ run[c].games[j].endDate = first.endDate
                   /\ Range(run[c].ret) \subseteq Range(run[c].games)

\* A cycle returned the record of an entry that lists two groups and three
\* offers: it carries the dates of the first offer of the first group.
C15_Witness ==
    \E c \in Triggers :
        /\ Returned(c)
        /\ run[c].data = Body(<< Active("A1"), ActiveMany("A2") >>)
        /\ \E j \in 1..Len(run[c].ret) :
              run[c].ret[j] = [id |-> "A2", startDate |-> 2, endDate |-> 9]

----------------------------------------------------------------------------
\* C16: within one cycle no id is notified or returned twice, even when the
\* catalog lists it in several qualifying entries: the first of them is
\* notified and recorded, the later ones are skipped.
C16_NoIdTwiceInACycle ==
    \A c \in Triggers :
        /\ Distinct(obs[c].sent)
        /\ Distinct(IdSeq(run[c].newGames))
        /\ Distinct(IdSeq(run[c].ret))
        /\ \A j \in 1..Len(run[c].newGames) :
              \E k \in 1..Len(run[c].games) :
                  /\ run[c].newGames[j] = run[c].games[k]
                  /\ \A m \in 1..(k - 1) : run[c].games[m].id # run[c].games[k].id

\* A cycle fetched a catalog listing A2 twice and returned only its first
\* entry.
C16_Witness ==
    \E c \in Triggers :
        /\ Returned(c) /\ obs[c].outcome = "saved"
        /\ IdSeq(run[c].games) = << "A2", "A2" >>
        /\ obs[c].sent = << "A2" >>
        /\ run[c].ret = << [id |-> "A2", startDate |-> 2, endDate |-> 9] >>

----------------------------------------------------------------------------
\* C17: every id in the persisted store, and in the in-memory set of any
\* cycle, was in the store at process start or has had a webhook POST
\* issued for it, whether cycles overlap or not.
C17_PersistedWasAttempted ==
    LET attempted == {i \in Ids : posted[i] > 0}
    IN  /\ file.ids \subseteq initial \cup attempted
        /\ \A c \in Triggers : run[c].cache \subseteq initial \cup attempted

\* A cycle that overlapped another one has saved, and the file it wrote
\* holds an id that was not there at process start.
C17_Witness ==
    \E c \in Triggers :
        /\ obs[c].overl /\ obs[c].outcome = "saved"
        /\ file = obs[c].wrote
        /\ file.ids \ initial # {}
        /\ initial # {}

----------------------------------------------------------------------------
\* C18: provided every outbound HTTP call eventually resolves or fails,
\* every call of fetchEpicFreeGames eventually returns a list and never
\* rejects, whatever fails inside it, and every GET /check request
\* eventually receives a response.
C18_EveryCycleReturns ==
    /\ [](\A c \in Triggers : run[c].pc # "rejected")
    /\ \A c \in Triggers : InFlight(c) ~> Returned(c)
    /\ InFlight("check") ~> response.sent

\* A /check cycle returned and was answered after a failed POST and a failed
\* write.
C18_Witness ==
    /\ Returned("check") /\ response.sent
    /\ obs["check"].outcome = "writeError"
    /\ obs["check"].failed # {}
    /\ file = Corrupt

====
